---------------------------- MODULE Spec2Model ----------------------------
(***************************************************************************)
(* A model of src/filter.py: the four per-pixel colour functions, the      *)
(* filter registry (filter_from_string, function_for_filter), the pixel    *)
(* traversal transform_pixels and the pipeline main -> apply_filter.       *)
(*                                                                         *)
(* Python floats are IEEE-754 binary64.  The weighted sums of the          *)
(* grayscale and sepia functions are computed here as the interpreter      *)
(* computes them: every product and every sum is rounded to 53 significant *)
(* bits (round half to even), left to right, and int() then truncates.     *)
(* A float is held exactly as three limbs <<hi, mid, lo>> in base 2^22,    *)
(* counting units of 2^-56: value = (hi*2^44 + mid*2^22 + lo) / 2^56.      *)
(* All floats that occur (a coefficient below 1 times a channel in 0..255, *)
(* and sums of up to three of them) are below 2^9, so hi stays below 2^21, *)
(* every limb product stays below 2^31, and the bits a rounding drops      *)
(* (at most 12) all lie in lo.                                             *)
(***************************************************************************)
EXTENDS Integers, Sequences, FiniteSets, TLC

VARIABLES
    pc,                 \* position of the running call
    status,             \* "running", "ok", or the error that ended the run
    entry,              \* the function the run entered by
    selector,           \* the filter argument, a sequence of characters
    show_result,        \* the -s/--show flag
    input_ok,           \* environment: Image.open(input) succeeds
    output_ok,          \* environment: working_image.save(output) succeeds
    source_image,       \* environment: the pixels of the input file
    filter_name,        \* the Filter member filter_from_string returned
    conversion,         \* the convert_to_* function function_for_filter returned
    conversion_function,\* the nested *_conversion_func handed to transform_pixels
    pixel_map,          \* working_image.load(): [coordinate -> (r, g, b)]
    width, height,      \* working_image.size
    i, j,               \* the loop counters of transform_pixels
    rgb,                \* the r, g, b read at line 83
    orig,               \* history: pixel_map when transform_pixels was entered
    log,                \* history: every stage and every pixel access, in order
    output_files,       \* the files written by save, in order
    alt_map, alt_state, alt_rgb,  \* a second traversal of the same buffer in any order
    px_fn, px_in, px_out, px_again \* a direct call of one pixel function

vars == <<pc, status, entry, selector, show_result, input_ok, output_ok, source_image,
          filter_name, conversion, conversion_function, pixel_map, width, height,
          i, j, rgb, orig, log, output_files, alt_map, alt_state, alt_rgb,
          px_fn, px_in, px_out, px_again>>

--------------------------------------------------------------------------
(* Bounds of the model. *)

\* Largest image width and height drawn.
MaxW == 2
MaxH == 2
\* Largest step between the palette entries of neighbouring pixels.
MaxStride == 2
\* A direct call of a pixel function draws each channel from
\* 0..MaxLow and 255-MaxHigh..255.
MaxLow == 22
MaxHigh == 5
\* Longest selector drawn letter by letter.
MaxSelLen == 5

--------------------------------------------------------------------------
(* IEEE-754 binary64 arithmetic, as far as lines 99-100 and 115-118 use it. *)

Limb == 2^22
\* 2^56 / Limb^2: the units of hi that make up 1.0
HiPerOne == 2^12

\* The binary64 values of the literals, in units of 2^-56.
Lit_0_299 == <<1224, 2952790, 67108>>
Lit_0_587 == <<2404, 1476395, 33552>>
Lit_0_114 == <<466, 3959422, 4093641>>
Lit_0_393 == <<1609, 3053453, 1308624>>
Lit_0_769 == <<3149, 3456106, 2080376>>
Lit_0_189 == <<774, 603979, 3254780>>
Lit_0_349 == <<1429, 2113929, 905968>>
Lit_0_686 == <<2809, 3590324, 939528>>
Lit_0_168 == <<688, 536870, 3825206>>
Lit_0_272 == <<1114, 469762, 201328>>
Lit_0_534 == <<2187, 1107296, 1073744>>
Lit_0_131 == <<536, 2415919, 436208>>

\* The exact values are triples of limbs.
Limbs == Int \X Int \X Int

\* Carry propagation: mid and lo back into 0..Limb-1.
Carry[x \in Limbs] ==
    LET m == x[2] + (x[3] \div Limb)
    IN  <<x[1] + (m \div Limb), m % Limb, x[3] % Limb>>

\* The number of bits of n.
BitLen[n \in Nat] == IF n = 0 THEN 0 ELSE 1 + BitLen[n \div 2]

\* Round an exact value to 53 significant bits, ties to even.  The value has
\* 44 + BitLen[hi] bits, so BitLen[hi] - 9 low bits are dropped.
Round53[x \in Limbs] ==
    LET d == BitLen[x[1]] - 9
    IN  IF d <= 0 THEN x
        ELSE LET m    == 2^d
                 q    == x[3] \div m
                 rem  == x[3] % m
                 half == m \div 2
                 up   == rem > half \/ (rem = half /\ q % 2 = 1)
             IN  Carry[<<x[1], x[2], (IF up THEN q + 1 ELSE q) * m>>]

\* float * int, the int in 0..255 (converted exactly).
float_mul(c, n) == Round53[Carry[<<c[1] * n, c[2] * n, c[3] * n>>]]

\* float + float.
float_add(a, b) == Round53[Carry[<<a[1] + b[1], a[2] + b[2], a[3] + b[3]>>]]

\* int(float) of a non-negative float: the fraction is dropped.
int_of_float(x) == x[1] \div HiPerOne

\* c1 * r + c2 * g + c3 * b, evaluated left to right.
weighted_sum(c1, c2, c3, r, g, b) ==
    float_add(float_add(float_mul(c1, r), float_mul(c2, g)), float_mul(c3, b))

--------------------------------------------------------------------------
(* The four pixel functions. *)

grayscale_conversion_func(r, g, b) ==
    LET grayscale == weighted_sum(Lit_0_299, Lit_0_587, Lit_0_114, r, g, b)
    IN  <<int_of_float(grayscale), int_of_float(grayscale), int_of_float(grayscale)>>

sepia_conversion_func(r, g, b) ==
    LET sepia_red   == weighted_sum(Lit_0_393, Lit_0_769, Lit_0_189, r, g, b)
        sepia_green == weighted_sum(Lit_0_349, Lit_0_686, Lit_0_168, r, g, b)
        sepia_blue  == weighted_sum(Lit_0_272, Lit_0_534, Lit_0_131, r, g, b)
    IN  <<int_of_float(sepia_red), int_of_float(sepia_green), int_of_float(sepia_blue)>>

warmer_conversion_func(r, g, b) ==
    LET warmer_red  == r + 15
        warmer_blue == b - 15
    IN  <<warmer_red, g, warmer_blue>>

\* Mutant: the signs of the two offsets exchanged.
cooler_conversion_func_swapped(r, g, b) ==
    LET cooler_red  == r + 15
        cooler_blue == b - 15
    IN  <<cooler_red, g, cooler_blue>>

cooler_conversion_func(r, g, b) ==
    LET cooler_red  == r - 15
        cooler_blue == b + 15
    IN  <<cooler_red, g, cooler_blue>>

PixelFunctions == {"grayscale_conversion_func", "sepia_conversion_func",
                   "warmer_conversion_func", "cooler_conversion_func"}

\* The call conversion_function(r, g, b) of line 86.
call_conversion_function(fn, r, g, b) ==
    CASE fn = "grayscale_conversion_func" -> grayscale_conversion_func(r, g, b)
      [] fn = "sepia_conversion_func"     -> sepia_conversion_func(r, g, b)
      [] fn = "warmer_conversion_func"    -> warmer_conversion_func(r, g, b)
      [] fn = "cooler_conversion_func"    -> cooler_conversion_func(r, g, b)

--------------------------------------------------------------------------
(* Strings are sequences of one-character strings; str.upper() maps the    *)
(* ASCII letters, which is all the alphabet the selectors here are drawn   *)
(* from.                                                                   *)

LowerLetters == <<"a","b","c","d","e","f","g","h","i","j","k","l","m",
                  "n","o","p","q","r","s","t","u","v","w","x","y","z">>
UpperLetters == <<"A","B","C","D","E","F","G","H","I","J","K","L","M",
                  "N","O","P","Q","R","S","T","U","V","W","X","Y","Z">>

char_upper(ch) ==
    IF \E n \in 1..26 : LowerLetters[n] = ch
    THEN UpperLetters[CHOOSE n \in 1..26 : LowerLetters[n] = ch]
    ELSE ch

str_upper(s) == [k \in 1..Len(s) |-> char_upper(s[k])]

\* class Filter(Enum): the member of each name.
Filter ==
    (<<"G","R","A","Y","S","C","A","L","E">> :> "GRAYSCALE") @@
    (<<"S","E","P","I","A">>                 :> "SEPIA") @@
    (<<"W","A","R","M","E","R">>             :> "WARMER") @@
    (<<"C","O","O","L","E","R">>             :> "COOLER")

KeyError == "KeyError"

\* Mutant: the name looked up as given, without upper().
filter_from_string_as_given(name) ==
    IF name \in DOMAIN Filter THEN Filter[name] ELSE KeyError

filter_from_string(name) ==
    LET enum_name == str_upper(name)
    IN  IF enum_name \in DOMAIN Filter THEN Filter[enum_name] ELSE KeyError

filter_map ==
    ("GRAYSCALE" :> "convert_to_grayscale") @@
    ("SEPIA"     :> "convert_to_sepia") @@
    ("WARMER"    :> "convert_to_warmer") @@
    ("COOLER"    :> "convert_to_cooler")

function_for_filter(member) ==
    IF member \in DOMAIN filter_map THEN filter_map[member] ELSE KeyError

\* The nested function each convert_to_* hands to transform_pixels.
nested_func ==
    ("convert_to_grayscale" :> "grayscale_conversion_func") @@
    ("convert_to_sepia"     :> "sepia_conversion_func") @@
    ("convert_to_warmer"    :> "warmer_conversion_func") @@
    ("convert_to_cooler"    :> "cooler_conversion_func")

\* choices=[...] of the filter argument (line 162).
choices ==
    { <<"g","r","a","y","s","c","a","l","e">>, <<"s","e","p","i","a">>,
      <<"w","a","r","m","e","r">>, <<"c","o","o","l","e","r">> }

--------------------------------------------------------------------------
(* The pixel map.  working_image.load() (line 57) of a three-band image    *)
(* gives PIL's PixelAccess over 8-bit channels: reading gives the stored   *)
(* triple, and writing converts each integer of the colour to a channel by *)
(* clipping it to 0..255 (it neither wraps nor raises).  The code itself   *)
(* clamps nowhere: what it hands to the write is the function's result.    *)

Clip8(v) == IF v < 0 THEN 0 ELSE IF v > 255 THEN 255 ELSE v

\* Mutant: the pixel to the left is read where there is one.
pixel_get_left(pm, xy) ==
    IF <<xy[1] - 1, xy[2]>> \in DOMAIN pm THEN pm[<<xy[1] - 1, xy[2]>>] ELSE pm[xy]

pixel_get(pm, xy) == pm[xy]

pixel_set(pm, xy, colour) ==
    [pm EXCEPT ![xy] = <<Clip8(colour[1]), Clip8(colour[2]), Clip8(colour[3])>>]

--------------------------------------------------------------------------
(* The inputs drawn. *)

Palette ==
    << <<200, 150, 100>>, <<10, 10, 10>>, <<250, 0, 0>>, <<1, 1, 1>>,
       <<255, 255, 255>>, <<5, 200, 250>>, <<4, 11, 21>>, <<0, 0, 0>> >>

Coords(w, h) == (0..(w - 1)) \X (0..(h - 1))

\* The w x h image whose pixels step through the palette from entry seed + 1.
ImageOf(w, h, seed, stride) ==
    [c \in Coords(w, h) |->
        Palette[((seed + stride * (c[1] * h + c[2])) % Len(Palette)) + 1]]

\* A loaded image: its size and its pixels.
ImagesOfStride(least, strides) ==
    { [size |-> <<w, h>>, px |-> ImageOf(w, h, seed, stride)] :
        w \in least..MaxW, h \in least..MaxH,
        seed \in 0..(Len(Palette) - 1), stride \in strides }

Images(least) == ImagesOfStride(least, 0..MaxStride)

\* Every way of writing a name in upper and lower case letters.
RECURSIVE CaseVariants(_)
CaseVariants(name) ==
    IF name = <<>> THEN { <<>> }
    ELSE { <<ch>> \o rest : ch \in {Head(name), char_upper(Head(name))},
                            rest \in CaseVariants(Tail(name)) }

\* The selectors given on the command line.
CliSelectors ==
    choices \cup { <<"b","l","u","r">>, <<"S","e","p","i","a">>,
                   <<"G","R","A","Y","S","C","A","L","E">>, <<>> }

--------------------------------------------------------------------------
(* The pipeline: main (lines 157-167) and apply_filter (lines 44-67). *)

Event(stage) == <<stage, -1, -1>>

Idle ==
    /\ alt_map = <<>> /\ alt_state = <<>> /\ alt_rgb = <<>>
    /\ px_fn = "none" /\ px_in = <<>> /\ px_out = <<>> /\ px_again = <<>>

NotEntered ==
    /\ filter_name = "none" /\ conversion = "none" /\ conversion_function = "none"
    /\ pixel_map = <<>> /\ width = 0 /\ height = 0
    /\ i = 0 /\ j = 0 /\ rgb = <<>> /\ orig = <<>>
    /\ log = <<>> /\ output_files = <<>>

\* python filter.py <input> <selector> [-s], on an input file that holds an
\* image of at least one pixel or cannot be opened, and an output path that
\* can be written or cannot.
Init ==
    /\ entry = "main" /\ pc = "parse_args" /\ status = "running"
    /\ selector \in CliSelectors
    /\ show_result \in BOOLEAN
    /\ input_ok \in BOOLEAN
    /\ output_ok \in BOOLEAN
    /\ source_image \in Images(1)
    /\ NotEntered /\ Idle

Exit(result) == pc' = "exited" /\ status' = result

\* parser.parse_args() (line 165): a filter outside choices ends the run.
ParseArgs ==
    /\ pc = "parse_args"
    /\ log' = Append(log, Event("parse_args"))
    /\ IF selector \in choices
       THEN pc' = "filter_from_string" /\ status' = status
       ELSE Exit("SystemExit")
    /\ UNCHANGED <<entry, selector, show_result, input_ok, output_ok, source_image,
                   filter_name, conversion, conversion_function, pixel_map, width,
                   height, i, j, rgb, orig, output_files, alt_map, alt_state,
                   alt_rgb, px_fn, px_in, px_out, px_again>>

\* filter_from_string(args.filter) (line 167, lines 18-25).
FilterFromString ==
    /\ pc = "filter_from_string"
    /\ log' = Append(log, Event("filter_from_string"))
    /\ LET member == filter_from_string(selector)
       IN  IF member = KeyError
           THEN Exit(KeyError) /\ filter_name' = filter_name
           ELSE /\ filter_name' = member
                /\ pc' = IF entry = "main" THEN "open" ELSE "function_for_filter"
                /\ status' = status
    /\ UNCHANGED <<entry, selector, show_result, input_ok, output_ok, source_image,
                   conversion, conversion_function, pixel_map, width, height, i, j,
                   rgb, orig, output_files, alt_map, alt_state, alt_rgb, px_fn,
                   px_in, px_out, px_again>>

\* Image.open, working_image.load() and working_image.size (lines 54-58).
OpenImage ==
    /\ pc = "open"
    /\ log' = Append(log, Event("open"))
    /\ IF input_ok
       THEN /\ pixel_map' = source_image.px
            /\ width' = source_image.size[1]
            /\ height' = source_image.size[2]
            /\ pc' = "function_for_filter" /\ status' = status
       ELSE Exit("ImageLoadError") /\ UNCHANGED <<pixel_map, width, height>>
    /\ UNCHANGED <<entry, selector, show_result, input_ok, output_ok, source_image,
                   filter_name, conversion, conversion_function, i, j, rgb, orig,
                   output_files, alt_map, alt_state, alt_rgb, px_fn, px_in, px_out,
                   px_again>>

\* function_for_filter(filter_name) (line 61, lines 28-41).
FunctionForFilter ==
    /\ pc = "function_for_filter"
    /\ log' = Append(log, Event("function_for_filter"))
    /\ LET f == function_for_filter(filter_name)
       IN  IF f = KeyError
           THEN Exit(KeyError) /\ conversion' = conversion
           ELSE /\ conversion' = f
                /\ IF entry = "main"
                   THEN pc' = "convert" /\ status' = status
                   ELSE Exit("ok")
    /\ UNCHANGED <<entry, selector, show_result, input_ok, output_ok, source_image,
                   filter_name, conversion_function, pixel_map, width, height, i, j,
                   rgb, orig, output_files, alt_map, alt_state, alt_rgb, px_fn,
                   px_in, px_out, px_again>>

\* Mutant: a failed save does not end the run.
SaveImage_swallowed ==
    /\ pc = "save"
    /\ log' = Append(log, Event("save"))
    /\ output_files' = IF output_ok THEN Append(output_files, pixel_map)
                       ELSE output_files
    /\ IF show_result
       THEN pc' = "show" /\ status' = status
       ELSE Exit("ok")
    /\ UNCHANGED <<entry, selector, show_result, input_ok, output_ok, source_image,
                   filter_name, conversion, conversion_function, pixel_map, width,
                   height, i, j, rgb, orig, alt_map, alt_state, alt_rgb, px_fn,
                   px_in, px_out, px_again>>

\* working_image.save(output_img_name, format="png") (line 64) and the test
\* of show_result (line 66).
SaveImage ==
    /\ pc = "save"
    /\ log' = Append(log, Event("save"))
    /\ IF output_ok
       THEN /\ output_files' = Append(output_files, pixel_map)
            /\ IF show_result
               THEN pc' = "show" /\ status' = status
               ELSE Exit("ok")
       ELSE Exit("ImageSaveError") /\ output_files' = output_files
    /\ UNCHANGED <<entry, selector, show_result, input_ok, output_ok, source_image,
                   filter_name, conversion, conversion_function, pixel_map, width,
                   height, i, j, rgb, orig, alt_map, alt_state, alt_rgb, px_fn,
                   px_in, px_out, px_again>>

\* working_image.show() (line 67).
ShowImage ==
    /\ pc = "show"
    /\ log' = Append(log, Event("show"))
    /\ Exit("ok")
    /\ UNCHANGED <<entry, selector, show_result, input_ok, output_ok, source_image,
                   filter_name, conversion, conversion_function, pixel_map, width,
                   height, i, j, rgb, orig, output_files, alt_map, alt_state,
                   alt_rgb, px_fn, px_in, px_out, px_again>>

--------------------------------------------------------------------------
(* convert_to_* (lines 89-154) and transform_pixels (lines 70-86). *)

\* convert_to_*(pixel_map, width, height): the call of transform_pixels with
\* the nested conversion function.
ConvertTo ==
    /\ pc = "convert"
    /\ conversion_function' = nested_func[conversion]
    /\ orig' = pixel_map
    /\ i' = 0
    /\ pc' = "for_i"
    /\ UNCHANGED <<status, entry, selector, show_result, input_ok, output_ok,
                   source_image, filter_name, conversion, pixel_map, width, height,
                   j, rgb, log, output_files, alt_map, alt_state, alt_rgb, px_fn,
                   px_in, px_out, px_again>>

\* Mutant: the column loop runs one column too far.
ForI_inclusive ==
    /\ pc = "for_i"
    /\ IF i <= width
       THEN pc' = "for_j" /\ j' = 0 /\ status' = status
       ELSE /\ j' = j
            /\ CASE entry = "main"  -> pc' = "save" /\ status' = status
                 [] entry = "order" -> pc' = "any_order" /\ status' = status
                 [] OTHER           -> Exit("ok")
    /\ UNCHANGED <<entry, selector, show_result, input_ok, output_ok, source_image,
                   filter_name, conversion, conversion_function, pixel_map, width,
                   height, i, rgb, orig, log, output_files, alt_map, alt_state,
                   alt_rgb, px_fn, px_in, px_out, px_again>>

\* for i in range(width) (line 80); past the last column the call returns.
ForI ==
    /\ pc = "for_i"
    /\ IF i < width
       THEN pc' = "for_j" /\ j' = 0 /\ status' = status
       ELSE /\ j' = j
            /\ CASE entry = "main"  -> pc' = "save" /\ status' = status
                 [] entry = "order" -> pc' = "any_order" /\ status' = status
                 [] OTHER           -> Exit("ok")
    /\ UNCHANGED <<entry, selector, show_result, input_ok, output_ok, source_image,
                   filter_name, conversion, conversion_function, pixel_map, width,
                   height, i, rgb, orig, log, output_files, alt_map, alt_state,
                   alt_rgb, px_fn, px_in, px_out, px_again>>

\* Mutant: the row loop runs one row too far.
ForJ_inclusive ==
    /\ pc = "for_j"
    /\ IF j <= height
       THEN /\ log' = Append(log, <<"read", i, j>>)
            /\ i' = i
            /\ IF <<i, j>> \in DOMAIN pixel_map
               THEN rgb' = pixel_get(pixel_map, <<i, j>>) /\ pc' = "store"
                    /\ status' = status
               ELSE rgb' = rgb /\ Exit("IndexError")
       ELSE i' = i + 1 /\ pc' = "for_i" /\ UNCHANGED <<rgb, log, status>>
    /\ UNCHANGED <<entry, selector, show_result, input_ok, output_ok, source_image,
                   filter_name, conversion, conversion_function, pixel_map, width,
                   height, j, orig, output_files, alt_map, alt_state, alt_rgb,
                   px_fn, px_in, px_out, px_again>>

\* for j in range(height) (line 81) and r, g, b = pixel_map[i, j] (line 83).
ForJ ==
    /\ pc = "for_j"
    /\ IF j < height
       THEN /\ log' = Append(log, <<"read", i, j>>)
            /\ i' = i
            /\ IF <<i, j>> \in DOMAIN pixel_map
               THEN rgb' = pixel_get(pixel_map, <<i, j>>) /\ pc' = "store"
                    /\ status' = status
               ELSE rgb' = rgb /\ Exit("IndexError")
       ELSE i' = i + 1 /\ pc' = "for_i" /\ UNCHANGED <<rgb, log, status>>
    /\ UNCHANGED <<entry, selector, show_result, input_ok, output_ok, source_image,
                   filter_name, conversion, conversion_function, pixel_map, width,
                   height, j, orig, output_files, alt_map, alt_state, alt_rgb,
                   px_fn, px_in, px_out, px_again>>

\* Mutant: the result is written to the transposed coordinate.
Store_transposed ==
    /\ pc = "store"
    /\ pixel_map' = IF <<j, i>> \in DOMAIN pixel_map
                    THEN pixel_set(pixel_map, <<j, i>>,
                            call_conversion_function(conversion_function,
                                                     rgb[1], rgb[2], rgb[3]))
                    ELSE pixel_map
    /\ log' = Append(log, <<"write", i, j>>)
    /\ j' = j + 1
    /\ pc' = "for_j"
    /\ UNCHANGED <<status, entry, selector, show_result, input_ok, output_ok,
                   source_image, filter_name, conversion, conversion_function,
                   width, height, i, rgb, orig, output_files, alt_map, alt_state,
                   alt_rgb, px_fn, px_in, px_out, px_again>>

\* pixel_map[i, j] = conversion_function(r, g, b) (line 86).
Store ==
    /\ pc = "store"
    /\ pixel_map' = pixel_set(pixel_map, <<i, j>>,
                       call_conversion_function(conversion_function,
                                                rgb[1], rgb[2], rgb[3]))
    /\ log' = Append(log, <<"write", i, j>>)
    /\ j' = j + 1
    /\ pc' = "for_j"
    /\ UNCHANGED <<status, entry, selector, show_result, input_ok, output_ok,
                   source_image, filter_name, conversion, conversion_function,
                   width, height, i, rgb, orig, output_files, alt_map, alt_state,
                   alt_rgb, px_fn, px_in, px_out, px_again>>

Next ==
    \/ ParseArgs \/ FilterFromString \/ OpenImage \/ FunctionForFilter
    \/ ConvertTo \/ ForI \/ ForJ \/ Store
    \/ SaveImage \/ ShowImage

Spec == Init /\ [][Next]_vars

--------------------------------------------------------------------------
(* A direct call convert_to_*(pixel_map, width, height) on a buffer of any *)
(* size, zero included.                                                    *)

NoCommandLine ==
    /\ selector = <<>> /\ show_result = FALSE /\ input_ok = TRUE /\ output_ok = TRUE

InitTransform ==
    /\ entry = "convert" /\ pc = "convert" /\ status = "running"
    /\ NoCommandLine
    /\ source_image \in Images(0)
    /\ conversion \in {filter_map[m] : m \in DOMAIN filter_map}
    /\ pixel_map = source_image.px
    /\ width = source_image.size[1] /\ height = source_image.size[2]
    /\ filter_name = "none" /\ conversion_function = "none"
    /\ i = 0 /\ j = 0 /\ rgb = <<>> /\ orig = <<>>
    /\ log = <<>> /\ output_files = <<>>
    /\ Idle

NextTransform == ConvertTo \/ ForI \/ ForJ \/ Store

SpecTransform == InitTransform /\ [][NextTransform]_vars

\* The interpreter keeps executing the call until it returns.
SpecTransformFair == SpecTransform /\ WF_vars(NextTransform)

--------------------------------------------------------------------------
(* After the call of convert_to_*, the buffer as it was before the call is *)
(* traversed a second time by the loop body of lines 83-86 applied to the  *)
(* coordinates in any order, the reads and writes of different coordinates *)
(* interleaved in any way.                                                 *)

InitOrder ==
    /\ entry = "order" /\ pc = "convert" /\ status = "running"
    /\ NoCommandLine
    /\ source_image \in ImagesOfStride(0, {1})
    /\ conversion \in {filter_map[m] : m \in DOMAIN filter_map}
    /\ pixel_map = source_image.px
    /\ width = source_image.size[1] /\ height = source_image.size[2]
    /\ filter_name = "none" /\ conversion_function = "none"
    /\ i = 0 /\ j = 0 /\ rgb = <<>> /\ orig = <<>>
    /\ log = <<>> /\ output_files = <<>>
    /\ alt_map = source_image.px
    /\ alt_state = [c \in DOMAIN source_image.px |-> "todo"]
    /\ alt_rgb = [c \in DOMAIN source_image.px |-> <<>>]
    /\ px_fn = "none" /\ px_in = <<>> /\ px_out = <<>> /\ px_again = <<>>

\* r, g, b = pixel_map[c] (line 83) at a coordinate not yet visited.
AltRead ==
    /\ pc = "any_order"
    /\ \E c \in DOMAIN alt_state :
        /\ alt_state[c] = "todo"
        /\ alt_rgb' = [alt_rgb EXCEPT ![c] = pixel_get(alt_map, c)]
        /\ alt_state' = [alt_state EXCEPT ![c] = "read"]
    /\ UNCHANGED <<pc, status, entry, selector, show_result, input_ok, output_ok,
                   source_image, filter_name, conversion, conversion_function,
                   pixel_map, width, height, i, j, rgb, orig, log, output_files,
                   alt_map, px_fn, px_in, px_out, px_again>>

\* pixel_map[c] = conversion_function(r, g, b) (line 86) at a coordinate read.
AltWrite ==
    /\ pc = "any_order"
    /\ \E c \in DOMAIN alt_state :
        /\ alt_state[c] = "read"
        /\ alt_map' = pixel_set(alt_map, c,
                         call_conversion_function(conversion_function,
                             alt_rgb[c][1], alt_rgb[c][2], alt_rgb[c][3]))
        /\ alt_state' = [alt_state EXCEPT ![c] = "done"]
    /\ UNCHANGED <<pc, status, entry, selector, show_result, input_ok, output_ok,
                   source_image, filter_name, conversion, conversion_function,
                   pixel_map, width, height, i, j, rgb, orig, log, output_files,
                   alt_rgb, px_fn, px_in, px_out, px_again>>

\* Every coordinate has been visited once.
AltDone ==
    /\ pc = "any_order"
    /\ \A c \in DOMAIN alt_state : alt_state[c] = "done"
    /\ Exit("ok")
    /\ UNCHANGED <<entry, selector, show_result, input_ok, output_ok,
                   source_image, filter_name, conversion, conversion_function,
                   pixel_map, width, height, i, j, rgb, orig, log, output_files,
                   alt_map, alt_state, alt_rgb, px_fn, px_in, px_out, px_again>>

NextOrder == ConvertTo \/ ForI \/ ForJ \/ Store \/ AltRead \/ AltWrite \/ AltDone

SpecOrder == InitOrder /\ [][NextOrder]_vars

--------------------------------------------------------------------------
(* A direct call of one pixel function on one pixel, and a second call of  *)
(* the same function on its result when that is a pixel again.             *)

Channels == (0..MaxLow) \cup ((255 - MaxHigh)..255)

IsPixel(p) == \A k \in 1..3 : p[k] \in 0..255

InitPixel ==
    /\ entry = "pixel" /\ pc = "pixel" /\ status = "running"
    /\ NoCommandLine /\ source_image = <<>>
    /\ NotEntered
    /\ alt_map = <<>> /\ alt_state = <<>> /\ alt_rgb = <<>>
    /\ px_fn = "none" /\ px_out = <<>> /\ px_again = <<>>
    /\ px_in \in Channels \X Channels \X Channels

CallPixelFunction ==
    /\ pc = "pixel"
    /\ \E fn \in PixelFunctions :
        /\ px_fn' = fn
        /\ px_out' = call_conversion_function(fn, px_in[1], px_in[2], px_in[3])
    /\ pc' = "again"
    /\ UNCHANGED <<status, entry, selector, show_result, input_ok, output_ok,
                   source_image, filter_name, conversion, conversion_function,
                   pixel_map, width, height, i, j, rgb, orig, log, output_files,
                   alt_map, alt_state, alt_rgb, px_in, px_again>>

CallAgain ==
    /\ pc = "again"
    /\ IsPixel(px_out)
    /\ px_again' = call_conversion_function(px_fn, px_out[1], px_out[2], px_out[3])
    /\ Exit("ok")
    /\ UNCHANGED <<entry, selector, show_result, input_ok, output_ok,
                   source_image, filter_name, conversion, conversion_function,
                   pixel_map, width, height, i, j, rgb, orig, log, output_files,
                   alt_map, alt_state, alt_rgb, px_fn, px_in, px_out>>

NextPixel == CallPixelFunction \/ CallAgain

SpecPixel == InitPixel /\ [][NextPixel]_vars

--------------------------------------------------------------------------
(* A direct call function_for_filter(filter_from_string(selector)) on any  *)
(* selector: every spelling of the four names, every word of up to         *)
(* MaxSelLen letters of Alphabet, and the command line's selectors.        *)

Alphabet == {"s", "e", "p", "i", "a", "S", "A"}

Words(n) == UNION { [1..k -> Alphabet] : k \in 0..n }

RegistrySelectors ==
    UNION { CaseVariants(name) : name \in choices }
      \cup Words(MaxSelLen) \cup CliSelectors

InitRegistry ==
    /\ entry = "registry" /\ pc = "filter_from_string" /\ status = "running"
    /\ selector \in RegistrySelectors
    /\ show_result = FALSE /\ input_ok = TRUE /\ output_ok = TRUE
    /\ source_image = <<>>
    /\ NotEntered /\ Idle

NextRegistry == FilterFromString \/ FunctionForFilter

SpecRegistry == InitRegistry /\ [][NextRegistry]_vars

--------------------------------------------------------------------------
(* Properties.                                                             *)

Returned == pc = "exited" /\ status = "ok"

\* The pixel function of the running call applied to a pixel.
Applied(p) == call_conversion_function(conversion_function, p[1], p[2], p[3])

Min(a, b) == IF a < b THEN a ELSE b
Max(a, b) == IF a < b THEN b ELSE a

\* A triple with each channel brought into 0..255.
Clamped(p) == <<Max(0, Min(255, p[1])), Max(0, Min(255, p[2])), Max(0, Min(255, p[3]))>>

\* The places in the log of an access, or of a stage.
Accesses(op, c) == { k \in 1..Len(log) : log[k] = <<op, c[1], c[2]>> }
Pos(op) == { k \in 1..Len(log) : log[k][1] = op }
Before(a, b) == \A x \in Pos(a), y \in Pos(b) : x < y

\* C1, as claimed: when transform_pixels has returned, the pixel at every
\* coordinate of the W x H buffer equals the pixel function applied to the
\* value that pixel had before the call.
C1_Unclamped ==
    Returned =>
        \A c \in Coords(width, height) : pixel_map[c] = Applied(orig[c])

\* C1, amended: when transform_pixels has returned, the pixel at every
\* coordinate of the W x H buffer equals the pixel function applied to the
\* value that pixel had before the call, each channel brought into 0..255
\* by the 8-bit pixel map.
C1_Transformed ==
    Returned =>
        /\ DOMAIN pixel_map = Coords(width, height)
        /\ \A c \in Coords(width, height) :
              pixel_map[c] = Clamped(Applied(orig[c]))

C1_Witness ==
    /\ Returned /\ width = 2 /\ height = 2
    /\ \E c \in Coords(width, height) : pixel_map[c] # Applied(orig[c])
    /\ \E c, d \in Coords(width, height) : orig[c] # orig[d]

\* C2: during a run of transform_pixels on a W x H buffer no coordinate
\* outside [0,W) x [0,H) is accessed, no coordinate is read twice or written
\* twice, every write to a coordinate comes after the read of it, and the
\* dimensions stay what they were; when the call has returned, every
\* coordinate has been read exactly once and written exactly once, W*H
\* coordinates in all.
C2_VisitedOnce ==
    /\ \A k \in 1..Len(log) :
          /\ log[k][1] \in {"read", "write"}
          /\ <<log[k][2], log[k][3]>> \in Coords(width, height)
    /\ \A c \in Coords(width, height) :
          /\ Cardinality(Accesses("read", c)) <= 1
          /\ Cardinality(Accesses("write", c)) <= 1
          /\ \A w \in Accesses("write", c) : \E r \in Accesses("read", c) : r < w
    /\ width = source_image.size[1] /\ height = source_image.size[2]
    /\ DOMAIN pixel_map = DOMAIN source_image.px
    /\ status \in {"running", "ok"}
    /\ Returned =>
          /\ \A c \in Coords(width, height) :
                /\ Cardinality(Accesses("read", c)) = 1
                /\ Cardinality(Accesses("write", c)) = 1
          /\ Cardinality({ <<log[k][2], log[k][3]>> : k \in 1..Len(log) })
                = width * height
          /\ Len(log) = 2 * width * height

C2_Witness ==
    Returned /\ width = 2 /\ height = 2 /\ Len(log) = 8

\* C3, as claimed: for every pixel (r, g, b) with channels in 0..255 the
\* grayscale pixel function returns three equal channels whose value is
\* floor(0.299 r + 0.587 g + 0.114 b) = floor((299 r + 587 g + 114 b) / 1000).
C3_GrayscaleFloor ==
    px_fn = "grayscale_conversion_func" =>
        LET v == (299 * px_in[1] + 587 * px_in[2] + 114 * px_in[3]) \div 1000
        IN  px_out = <<v, v, v>>

\* C4, as claimed: for every pixel with channels in 0..255 the sepia, warmer
\* and cooler pixel functions return the values of their formulas, truncated
\* and not clamped.
C4_ExactFormulas ==
    LET r == px_in[1]
        g == px_in[2]
        b == px_in[3]
    IN  /\ px_fn = "sepia_conversion_func" =>
              px_out = << (393 * r + 769 * g + 189 * b) \div 1000,
                          (349 * r + 686 * g + 168 * b) \div 1000,
                          (272 * r + 534 * g + 131 * b) \div 1000 >>
        /\ px_fn = "warmer_conversion_func" => px_out = <<r + 15, g, b - 15>>
        /\ px_fn = "cooler_conversion_func" => px_out = <<r - 15, g, b + 15>>

\* The 2 x 1 image of the end-to-end scenario.
Scenario ==
    [size |-> <<2, 1>>,
     px   |-> (<<0, 0>> :> <<200, 150, 100>>) @@ (<<1, 0>> :> <<10, 10, 10>>)]

CoolerRun ==
    /\ entry = "main" /\ Returned
    /\ selector = <<"c","o","o","l","e","r">>
    /\ source_image = Scenario

\* C5, as claimed: the pipeline run with filter cooler on the 2 x 1 image
\* [(200,150,100), (10,10,10)] writes an output image whose pixels are
\* [(185,150,115), (-5,10,25)].
C5_Unclamped ==
    CoolerRun =>
        output_files =
            << (<<0, 0>> :> <<185, 150, 115>>) @@ (<<1, 0>> :> <<-5, 10, 25>>) >>

\* C5, amended: the pipeline run with filter cooler on the 2 x 1 image
\* [(200,150,100), (10,10,10)] writes one output image, whose pixels are
\* [(185,150,115), (0,10,25)]: the red channel -5 the cooler function
\* returns for the second pixel is stored as 0.
C5_Clipped ==
    CoolerRun =>
        output_files =
            << (<<0, 0>> :> <<185, 150, 115>>) @@ (<<1, 0>> :> <<0, 10, 25>>) >>

C5_Witness ==
    /\ CoolerRun /\ Len(output_files) = 1
    /\ cooler_conversion_func(10, 10, 10) = <<-5, 10, 25>>

char_lower(ch) ==
    IF \E n \in 1..26 : UpperLetters[n] = ch
    THEN LowerLetters[CHOOSE n \in 1..26 : UpperLetters[n] = ch]
    ELSE ch

Lowered(s) == [k \in 1..Len(s) |-> char_lower(s[k])]

\* The pixel function of each filter name.
PixelFunctionOf ==
    (<<"g","r","a","y","s","c","a","l","e">> :> "grayscale_conversion_func") @@
    (<<"s","e","p","i","a">>                 :> "sepia_conversion_func") @@
    (<<"w","a","r","m","e","r">>             :> "warmer_conversion_func") @@
    (<<"c","o","o","l","e","r">>             :> "cooler_conversion_func")

\* C6: a selector that is one of grayscale, sepia, warmer, cooler up to the
\* case of its letters resolves to the conversion of that filter, the same
\* for every spelling and never none; every other selector ends the call
\* with KeyError, no conversion returned and nothing run after it.
C6_Resolution ==
    /\ status \in {"running", "ok", KeyError}
    /\ pc = "exited" =>
          /\ ~ENABLED NextRegistry
          /\ IF Lowered(selector) \in DOMAIN PixelFunctionOf
             THEN /\ status = "ok"
                  /\ conversion \in DOMAIN nested_func
                  /\ nested_func[conversion] = PixelFunctionOf[Lowered(selector)]
             ELSE /\ status = KeyError
                  /\ conversion = "none" /\ filter_name = "none"

C6_Witness ==
    /\ pc = "exited" /\ status = "ok"
    /\ selector = <<"G","r","a","y","S","c","a","l","e">>
    /\ conversion = "convert_to_grayscale"

\* C7, as claimed: for every pixel with channels in 0..255, applying the
\* grayscale pixel function to its own result gives that result again.
C7_GrayscaleIdempotent ==
    (px_fn = "grayscale_conversion_func" /\ pc = "exited") => px_again = px_out

\* C8: in every run of the pipeline each stage is attempted at most once and
\* in the order filter_from_string, open, function_for_filter, the pixel
\* accesses, save, show; a run that has ended takes no further step; a
\* failed argument check or filter resolution opens, writes and shows
\* nothing, a failed load transforms, writes and shows nothing, a failed
\* save shows nothing and leaves no output file; a successful run has
\* written exactly one output file, saved after every coordinate was
\* written once; and show happens only with the show flag set, after a
\* successful save.
C8_StageOrder ==
    /\ \A s \in {"parse_args", "filter_from_string", "open",
                 "function_for_filter", "save", "show"} : Cardinality(Pos(s)) <= 1
    /\ Before("parse_args", "filter_from_string")
    /\ Before("filter_from_string", "open")
    /\ Before("open", "function_for_filter")
    /\ Before("function_for_filter", "read")
    /\ Before("read", "save") /\ Before("write", "save")
    /\ Before("save", "show")
    /\ Pos("open") # {} => Pos("filter_from_string") # {}
    /\ Pos("read") # {} => Pos("open") # {} /\ Pos("function_for_filter") # {}
    /\ Pos("save") # {} =>
          /\ Pos("function_for_filter") # {}
          /\ \A c \in Coords(width, height) : Cardinality(Accesses("write", c)) = 1
    /\ Pos("show") # {} => show_result /\ Pos("save") # {} /\ Len(output_files) = 1
    /\ pc = "exited" => ~ENABLED Next
    /\ status \in {"running", "ok", "SystemExit", "ImageLoadError", "ImageSaveError"}
    /\ status = "SystemExit" =>
          Pos("filter_from_string") = {} /\ Pos("open") = {} /\ Pos("save") = {}
              /\ Pos("show") = {} /\ output_files = <<>>
    /\ status = "ImageLoadError" =>
          Pos("function_for_filter") = {} /\ Pos("read") = {} /\ Pos("write") = {}
              /\ Pos("save") = {} /\ Pos("show") = {} /\ output_files = <<>>
    /\ status = "ImageSaveError" => Pos("show") = {} /\ output_files = <<>>
    /\ Len(output_files) <= 1
    /\ output_files # <<>> => Pos("save") # {} /\ output_ok
    /\ status = "ok" =>
          /\ Len(output_files) = 1 /\ Pos("save") # {}
          /\ show_result <=> Pos("show") # {}

C8_Witness ==
    /\ entry = "main" /\ Returned /\ show_result
    /\ width = 2 /\ height = 2
    /\ Pos("show") # {} /\ Len(output_files) = 1

ZeroSize == width = 0 \/ height = 0

\* C9: a call of transform_pixels on a buffer with W = 0 or H = 0 reads no
\* pixel, writes no pixel, leaves the buffer as it was, raises nothing, and
\* returns.
C9_ZeroSize ==
    /\ [](ZeroSize => /\ log = <<>>
                      /\ pixel_map = source_image.px
                      /\ status \in {"running", "ok"})
    /\ (ZeroSize ~> Returned)

C9_Witness ==
    Returned /\ width = 2 /\ height = 0 /\ i = 2 /\ log = <<>>

\* C10: the loop body applied to the coordinates of the buffer in any order,
\* each exactly once, with the accesses to different coordinates interleaved
\* in any way, reads at every coordinate the value it had before, leaves
\* every coordinate it has written equal to what the code's traversal left
\* there, and so ends with the buffer the code's traversal ends with; and the
\* code's traversal reads no coordinate after writing it.
C10_OrderIndependent ==
    /\ \A c \in Coords(width, height) :
          \A w \in Accesses("write", c), r \in Accesses("read", c) : r < w
    /\ pc \in {"any_order", "exited"} =>
          /\ \A c \in DOMAIN alt_state :
                /\ alt_state[c] = "done" => alt_map[c] = pixel_map[c]
                /\ alt_state[c] # "done" => alt_map[c] = source_image.px[c]
                /\ alt_state[c] = "read" => alt_rgb[c] = source_image.px[c]
          /\ Returned => alt_map = pixel_map

C10_Witness ==
    /\ pc = "any_order" /\ width = 2 /\ height = 2
    /\ alt_state[<<1, 1>>] = "done" /\ alt_state[<<1, 0>>] = "read"
    /\ alt_state[<<0, 0>>] = "todo"
    /\ alt_map[<<1, 1>>] # source_image.px[<<1, 1>>]

==========================================================================
